---- MODULE Spec2Model ----
(***************************************************************************)
(* MythicBot: per-guild configuration store (utils/config_manager.py),     *)
(* the warning ledger and the configuration commands that read, modify    *)
(* and write it (cogs/moderation.py, cogs/logging.py).                     *)
(*                                                                         *)
(* Scheduling.  All commands run as coroutines on one asyncio event loop.  *)
(* A coroutine keeps the processor until it awaits something that really   *)
(* suspends: a network call of the chat library (ctx.send, channel.send).  *)
(* asyncio.Lock.acquire returns without suspending when the lock is free,  *)
(* and the file read/write in config_manager.py is blocking I/O, so        *)
(* get_config and save_config never give control back to the loop.  The    *)
(* variable `running` holds the task that has the processor (empty when    *)
(* the event loop is choosing the next task to resume).                    *)
(***************************************************************************)
EXTENDS Integers, Sequences, FiniteSets, TLC

\* ---------------------------------------------------------------- bounds
MaxCmds  == 2      \* commands dispatched in one behaviour
MaxClock == 2      \* last second the wall clock reaches
MaxFail  == 1      \* I/O faults the environment injects
MaxLen   == 3      \* characters of a duration string drawn from Alphabet
MaxRank  == 2      \* highest role position in a guild
MaxRecords == 11   \* warnings of one member on file

\* ---------------------------------------------------------------- world
Tasks    == {1, 2}            \* coroutines the event loop runs at a time
Guilds   == {"g1", "g2"}
Members  == {1, 2}            \* members that can be targeted
Moderator == 3                \* ctx.author of every command
None     == "None"            \* Python None in a channel / role field

\* a dict key carries its Python type: str(member.id) or member.id
StrKey(id) == [t |-> "str", v |-> id]
IntKey(id) == [t |-> "int", v |-> id]

EmptyMap == [k \in {} |-> <<>>]
Put(f, k, v) == [x \in (DOMAIN f) \cup {k} |-> IF x = k THEN v ELSE f[x]]
Del(f, k) == [x \in (DOMAIN f) \ {k} |-> f[x]]
Get(f, k, d) == IF k \in DOMAIN f THEN f[k] ELSE d

\* list comprehension [w for w in ws if w.id != target]
RECURSIVE FilterOut(_, _)
FilterOut(ws, target) ==
    IF ws = <<>> THEN <<>>
    ELSE IF Head(ws).id # target
         THEN <<Head(ws)>> \o FilterOut(Tail(ws), target)
         ELSE FilterOut(Tail(ws), target)

\* ------------------------------------------------------- duration_parser
\* characters are one-character strings; UnicodeFive stands for U+0665
\* (ARABIC-INDIC DIGIT FIVE), a decimal digit that is not ASCII
Digits == <<"0", "1", "2", "3", "4", "5", "6", "7", "8", "9">>
UnicodeFive == "U+0665"
\* \d of a str pattern: every Unicode decimal digit
IsDigit(c) == (\E i \in 1..10 : Digits[i] = c) \/ c = UnicodeFive
\* the value int() gives the digit
DigitVal(c) == IF c = UnicodeFive THEN 5
               ELSE (CHOOSE i \in 1..10 : Digits[i] = c) - 1
lower(c) == CASE c = "S" -> "s" [] c = "M" -> "m" [] c = "H" -> "h"
              [] c = "D" -> "d" [] OTHER -> c
RECURSIVE int(_)
int(ds) == IF ds = <<>> THEN 0
           ELSE 10 * int(SubSeq(ds, 1, Len(ds) - 1)) + DigitVal(ds[Len(ds)])
UnitSeconds(u) == CASE u = "s" -> 1 [] u = "m" -> 60 [] u = "h" -> 3600
                    [] u = "d" -> 86400
NoDuration == -1     \* parse_duration returning None
Overflow == -2       \* datetime.timedelta(...) raising OverflowError
MaxTimeout == 2419200

\* the digit values of a run of digits without its leading zeros
RECURSIVE Significant(_)
Significant(ds) ==
    IF ds = <<>> THEN <<>>
    ELSE IF DigitVal(Head(ds)) = 0 THEN Significant(Tail(ds))
    ELSE [i \in 1..Len(ds) |-> DigitVal(ds[i])]
\* a >= b for two numbers given by their significant digits
RECURSIVE DigitsGE(_, _)
DigitsGE(a, b) ==
    IF Len(a) # Len(b) THEN Len(a) > Len(b)
    ELSE IF a = <<>> THEN TRUE
    ELSE IF Head(a) # Head(b) THEN Head(a) > Head(b)
    ELSE DigitsGE(Tail(a), Tail(b))
\* a timedelta holds at most 999999999 days: the least magnitude of each
\* unit for which datetime.timedelta raises OverflowError
TimedeltaLimit(u) ==
    CASE u = "d" -> <<1, 0, 0, 0, 0, 0, 0, 0, 0, 0>>
      [] u = "h" -> <<2, 4, 0, 0, 0, 0, 0, 0, 0, 0, 0>>
      [] u = "m" -> <<1, 4, 4, 0, 0, 0, 0, 0, 0, 0, 0, 0, 0>>
      [] u = "s" -> <<8, 6, 4, 0, 0, 0, 0, 0, 0, 0, 0, 0, 0, 0>>

\* re.match(r"(\d+)([smhd])$", s.lower()): `$` also matches just before a
\* newline that ends the string
ReMatch(s) ==
    LET n == IF Len(s) >= 1 /\ s[Len(s)] = "\n" THEN Len(s) - 1 ELSE Len(s)
    IN  /\ n >= 2
        /\ \A i \in 1..(n - 1) : IsDigit(s[i])
        /\ lower(s[n]) \in {"s", "m", "h", "d"}
\* the magnitude is an unbounded Python int; here it is compared by its
\* digits, and multiplied only when the product is at most MaxTimeout
parse_duration(s) ==
    IF ~ReMatch(s) THEN NoDuration
    ELSE LET n == IF s[Len(s)] = "\n" THEN Len(s) - 1 ELSE Len(s)
             ds == SubSeq(s, 1, n - 1)
             unit == lower(s[n])
             sig == Significant(ds)
         IN  IF sig = <<>> THEN NoDuration                  \* value <= 0
             ELSE IF DigitsGE(sig, TimedeltaLimit(unit)) THEN Overflow
             ELSE IF Len(sig) > 7 THEN NoDuration           \* over 28 days
             ELSE IF int(ds) > MaxTimeout \div UnitSeconds(unit) THEN NoDuration
             ELSE int(ds) * UnitSeconds(unit)

\* inputs at the edges of the parser: the 28-day bound in each unit, the
\* largest timedelta, a trailing newline
BoundaryStrings ==
    {<<"2", "8", "d">>, <<"2", "9", "d">>, <<"6", "7", "2", "h">>,
     <<"6", "7", "3", "h">>, <<"4", "0", "3", "2", "0", "m">>,
     <<"4", "0", "3", "2", "1", "m">>,
     <<"2", "4", "1", "9", "2", "0", "0", "s">>,
     <<"2", "4", "1", "9", "2", "0", "1", "s">>,
     <<"0", "0", "2", "8", "D">>, <<"2", "8", "d", "\n">>,
     <<"9", "9", "9", "9", "9", "9", "9", "9", "9", "d">>,
     <<"1", "0", "0", "0", "0", "0", "0", "0", "0", "0", "d">>,
     <<"2", "3", "9", "9", "9", "9", "9", "9", "9", "9", "9", "h">>,
     <<"2", "4", "0", "0", "0", "0", "0", "0", "0", "0", "0", "h">>}

\* --------------------------------------------------------- config_manager
DefaultConfig ==
    [log_channel |-> None, welcome_channel |-> None, leave_channel |-> None,
     verified_role |-> None, mod_log_channel |-> None,
     welcome_message |-> "Welcome {user.mention} to {server.name}!",
     leave_message |-> "{user.name} has left {server.name}.",
     warnings |-> EmptyMap,
     warn_threshold |-> 3,
     warn_action |-> "timeout",
     warn_timeout_duration |-> <<"1", "h">>]

\* json.dump: the keys of a JSON object are strings, an int key k is written
\* as str(k); when k and str(k) are both present the text holds the name
\* twice and json.load keeps the later one (the int key, inserted last)
json_dump(data) ==
    LET ws == data.warnings
        names == {StrKey(k.v) : k \in DOMAIN ws}
    IN  [data EXCEPT !.warnings =
            [k \in names |-> IF IntKey(k.v) \in DOMAIN ws
                             THEN ws[IntKey(k.v)] ELSE ws[k]]]
\* json.load: object -> dict with str keys, array -> list, null -> None
json_load(text) == text

Absent == [k |-> "absent", v |-> <<>>]
Partial == [k |-> "partial", v |-> <<>>]
Json(text) == [k |-> "json", v |-> <<text>>]
\* _locks = {}
NoLocks == [g \in {} |-> 0]

ReadErrors == {"OSError"}                  \* not FileNotFoundError
WriteErrors == {"OSError", "MemoryError"}
\* save_config with the `except Exception` clause left out
SaveCatchesIOErrorOnly(e) == e \in {"OSError"}
\* except IOError / except Exception in save_config
SaveCatches(e) == e \in {"OSError"} \cup {"MemoryError"}
\* get_config that handles only the missing file
GetCatchesNotFoundOnly(e) == e \in {"FileNotFoundError"}
\* except (FileNotFoundError, json.JSONDecodeError) in get_config
GetCatches(e) == e \in {"FileNotFoundError", "JSONDecodeError"}

VARIABLES
    pc,        \* position of each task's coroutine
    ret,       \* where the task continues after get_config / save_config
    cmd,       \* the command the task runs and its arguments
    rv,        \* value returned by the task's last get_config
    cfg,       \* the command's local `config` dict
    out,       \* what the command reported to the invoking channel
    act,       \* what the command asked of the platform and told the operators
    running,   \* the task that holds the processor: {t}, or {}
    locked,    \* state of each guild's asyncio.Lock
    locks,     \* the _locks table: guild id -> the Lock object made for it
    file,      \* content of config/<guild>.json
    now,       \* last value read from int(time.time())
    nCmds, nFail,
    \* history
    lastSave,  \* argument of the last save_config that completed on a guild
    nWarn,     \* warnings on file at the start plus warn commands whose save
               \* completed, per guild and member
    nRemoved,  \* records removed by clearwarns whose save completed
    mixed,     \* a command other than warn / clearwarns ran on the guild
    faulty,    \* an I/O fault hit the guild's file
    conc,      \* a command was dispatched on a guild while another ran there
    race       \* a warn was dispatched while another warn of the same member
               \* had not yet written

vars == <<pc, ret, cmd, rv, cfg, out, act, running, locked, locks, file,
          now, nCmds, nFail, lastSave, nWarn, nRemoved, mixed, faulty,
          conc, race>>
hist == <<lastSave, nWarn, nRemoved, mixed, faulty, conc, race>>

\* the record warn files (lines 458-463); the id is the second it was made
Warning(second, reason) ==
    [moderator_id |-> Moderator, reason |-> reason, timestamp |-> second,
     id |-> second]

\* what the bot finds in its config directory when it starts: guild g1 has a
\* document, saved by a warn against member 1 in the second the clock shows;
\* guild g2 has no file yet
InitialLedger == <<Warning(1, "spam")>>

\* the people of the guild, the bot's own member (ctx.guild.me) and, as 0,
\* a user who is not in the guild
Bot == 4
People == Members \cup {Moderator, Bot}
top_role(m) == CASE m = 1 -> 1 [] m = 2 -> 1 [] m = Moderator -> 2 [] OTHER -> 0
BotTopRole == 3
BotOwner == 0
GuildOwner == 0
\* what a command's ctx and the bot tell the moderation check: the author,
\* the guild's owner, the bot's owner and everybody's top role (its position)
World == [author |-> Moderator, owner |-> GuildOwner, bot_owner |-> BotOwner,
          top_role |-> [p \in People |-> IF p = Bot THEN BotTopRole ELSE top_role(p)]]

NoCmd == [op |-> "none", g |-> "g1", u |-> 0, reason |-> "", ref |-> "bad",
          id |-> 0, key |-> "", ch |-> None, perm |-> TRUE,
          count |-> 0, dur |-> <<>>, ctx |-> World]
\* res: the answer, n: the count it tells, shown: the records it lists
NoOut == [res |-> "", n |-> 0, shown |-> <<>>]
\* req: the action requested from the platform, n: how many requests were
\* sent, log: what the action handed to log_func ("action": the embed of
\* the action taken, "error", "config_error"), said: the action was announced
\* in the invoking channel
NoAct == [req |-> "none", n |-> 0, log |-> "none", said |-> FALSE]
Out(r, n) == [res |-> r, n |-> n, shown |-> <<>>]

\* the state when the bot has started: g1's document is on file, g2 has no
\* file, `cmds` commands and `fails` I/O faults are counted as spent
\* the state after construction with `document` on file for g1; `c`, if it
\* is a command, has been received and its callback is about to be invoked
InitWith(document, cmds, fails, c) ==
    /\ file = [g \in Guilds |-> IF g = "g1" THEN Json(document) ELSE Absent]
    /\ nWarn = [g \in Guilds |-> [u \in People |->
                 IF g = "g1"
                 THEN Len(Get(document.warnings, StrKey(u), <<>>)) ELSE 0]]
    /\ pc = [t \in Tasks |-> IF t = 1 /\ c # NoCmd THEN "invoke" ELSE "idle"]
    /\ ret = [t \in Tasks |-> "idle"]
    /\ cmd = [t \in Tasks |-> IF t = 1 THEN c ELSE NoCmd]
    /\ rv = [t \in Tasks |-> <<>>]
    /\ cfg = [t \in Tasks |-> <<>>]
    /\ out = [t \in Tasks |-> NoOut]
    /\ act = [t \in Tasks |-> NoAct]
    /\ running = IF c # NoCmd THEN {1} ELSE {}
    /\ locked = [g \in Guilds |-> FALSE]
    /\ locks = NoLocks
    /\ now = 1
    /\ nCmds = cmds
    /\ nFail = fails
    /\ lastSave = [g \in Guilds |-> <<>>]
    /\ nRemoved = [g \in Guilds |-> [u \in People |-> 0]]
    /\ mixed = [g \in Guilds |-> FALSE]
    /\ faulty = [g \in Guilds |-> FALSE]
    /\ conc = [g \in Guilds |-> FALSE]
    /\ race = [g \in Guilds |-> FALSE]

InitState(document, cmds, fails) == InitWith(document, cmds, fails, NoCmd)

Init ==
    InitState([DefaultConfig EXCEPT
                 !.warnings = Put(EmptyMap, StrKey(1), InitialLedger)], 0, 0)

\* the event loop may resume t, or t already runs
Sched(t) == running \subseteq {t}

\* positions from a command's get_config to the end of its save_config
BeforeWrite == {"get_lock", "get_cs", "warn_add", "cw_body", "sc_body", "wc_body",
                "save_lock", "save_cs"}
InFlight(t, g) == pc[t] # "idle" /\ cmd[t].g = g
\* log_event's read at the end of a command is not part of its update
Updating(t, g) ==
    InFlight(t, g) /\ pc[t] \in BeforeWrite /\ ret[t] \notin {"log_send", "log_end"}

\* a command arrives, is given the first free coroutine slot and its body starts
Dispatch(t, c) ==
    /\ pc[t] = "idle"
    /\ \A o \in Tasks : o < t => pc[o] # "idle"
    /\ running = {}
    /\ nCmds < MaxCmds
    /\ nCmds' = nCmds + 1
    /\ cmd' = [cmd EXCEPT ![t] = c]
    /\ mixed' = [mixed EXCEPT ![c.g] = @ \/ c.op \notin {"warn", "clearwarns"}]
    /\ conc' = [conc EXCEPT ![c.g] = @ \/ \E o \in Tasks \ {t} : InFlight(o, c.g)]
    /\ race' = [race EXCEPT ![c.g] = @ \/ (c.op = "warn" /\ \E o \in Tasks \ {t} :
                    Updating(o, c.g) /\ cmd[o].op = "warn" /\ cmd[o].u = c.u)]
    /\ UNCHANGED <<rv, cfg, act, locked, locks, file, now, nFail, lastSave,
                   nWarn, nRemoved, faulty>>

\* the command answers in the channel (await ctx.send) and returns; nothing
\* of the command is left to run, so the answer and the return are one step
Rejected(t, r) ==
    /\ pc' = [pc EXCEPT ![t] = "reply"]
    /\ out' = [out EXCEPT ![t] = Out(r, 0)]
    /\ running' = {t}
    /\ UNCHANGED ret

\* the command goes on to `config = await get_config(ctx.guild.id)`;
\* `suspended`: an await before it gave the processor back to the loop
Accepted(t, next, suspended) ==
    /\ pc' = [pc EXCEPT ![t] = "get_lock"]
    /\ ret' = [ret EXCEPT ![t] = next]
    /\ out' = [out EXCEPT ![t] = NoOut]
    /\ running' = IF suspended THEN {} ELSE {t}

\* the coroutine ends (it returned, or an exception left it): its locals die
Ends(t) ==
    /\ pc' = [pc EXCEPT ![t] = "idle"]
    /\ ret' = [ret EXCEPT ![t] = "idle"]
    /\ cmd' = [cmd EXCEPT ![t] = NoCmd]
    /\ rv' = [rv EXCEPT ![t] = <<>>]
    /\ cfg' = [cfg EXCEPT ![t] = <<>>]
    /\ out' = [out EXCEPT ![t] = NoOut]
    /\ act' = [act EXCEPT ![t] = NoAct]
    /\ running' = {}

\* an exception leaves get_config / save_config: the command is over
Raises(t) ==
    /\ pc' = [pc EXCEPT ![t] = "raised"]
    /\ running' = {t}

\* ---------------------------------------------------- get_config / save_config
\* asyncio.Lock(): the Lock objects made for a guild are told apart by their
\* number, the first one made being 1
NewLock(table, guild_id) == IF guild_id \in DOMAIN table THEN table[guild_id] + 1 ELSE 1
\* a table that gets a new Lock on every call
get_guild_lock_new_each_call(table, guild_id) ==
    (guild_id :> NewLock(table, guild_id)) @@ table
\* lines 17-20: the table after get_guild_lock(guild_id); the call returns
\* table[guild_id].  async with _get_lock_lock does not suspend: the lock of
\* the table is free whenever a task runs
get_guild_lock(table, guild_id) ==
    IF guild_id \in DOMAIN table THEN table
    ELSE (guild_id :> NewLock(table, guild_id)) @@ table

\* one lock for the whole bot, taken by a command and kept until it returns
NoOtherCommand(t) == \A o \in Tasks \ {t} : pc[o] = "idle"
\* async with lock: the task goes on at once when its guild's lock is free
LockFree(t) == ~locked[cmd[t].g]

\* async with lock that gives the lock back only when the block returns
aexit_on_return_only(lk, g, e) == IF e = "ok" THEN [lk EXCEPT ![g] = FALSE] ELSE lk
\* the end of `async with lock:`: the lock is released however the block is
\* left (e: "ok" or the exception)
aexit(lk, g, e) == [lk EXCEPT ![g] = FALSE]

\* one file for all guilds
filepath_shared(guild_id) == "g1"
\* os.path.join(CONFIG_DIR, f"{guild_id}.json"): the file of the guild
filepath(guild_id) == guild_id

\* a file opened with mode 'a+': it is created when it does not exist
open_a(f) == IF f = Absent THEN Partial ELSE f
\* open(filepath, 'r'): the file is left as it is
open_r(f) == f

\* get_config ported to awaited file I/O with the guild lock dropped: the
\* coroutine is suspended while it reads
get_config_enter_unlocked(t) ==
    /\ pc[t] = "get_lock"
    /\ Sched(t)
    /\ pc' = [pc EXCEPT ![t] = "get_cs"]
    /\ running' = {}
    /\ UNCHANGED <<ret, cmd, rv, cfg, out, act, locked, locks, file, now, nCmds, nFail>>
    /\ UNCHANGED hist

\* lock = await get_guild_lock(guild_id); async with lock:   (free lock: no suspension)
get_config_enter(t) ==
    /\ pc[t] = "get_lock"
    /\ Sched(t)
    /\ LockFree(t)
    /\ locks' = get_guild_lock(locks, cmd[t].g)
    /\ locked' = [locked EXCEPT ![cmd[t].g] = TRUE]
    /\ pc' = [pc EXCEPT ![t] = "get_cs"]
    /\ running' = {t}
    /\ UNCHANGED <<ret, cmd, rv, cfg, out, act, file, now, nCmds, nFail>>
    /\ UNCHANGED hist

\* what open() + json.load() raise for the content of the file
ReadOutcome(f) == CASE f.k = "absent" -> "FileNotFoundError"
                    [] f.k = "partial" -> "JSONDecodeError"
                    [] OTHER -> "ok"

\* the exception e leaves the try block of get_config
GetHandles(t, e) ==
    IF GetCatches(e)
    THEN /\ rv' = [rv EXCEPT ![t] = <<DefaultConfig>>]
         /\ pc' = [pc EXCEPT ![t] = ret[t]]
         /\ UNCHANGED running
    ELSE /\ Raises(t)
         /\ UNCHANGED rv

\* with open(filepath) as f: return json.load(f) / except ...: return default
get_config_read(t) ==
    LET g == cmd[t].g
        f == file[filepath(g)]
        e == ReadOutcome(f)
    IN  /\ pc[t] = "get_cs"
        /\ running = {t}
        /\ file' = [file EXCEPT ![filepath(g)] = open_r(f)]
        /\ \/ /\ e = "ok"
              /\ rv' = [rv EXCEPT ![t] = <<json_load(f.v[1])>>]
              /\ pc' = [pc EXCEPT ![t] = ret[t]]
              /\ locked' = aexit(locked, g, e)
              /\ UNCHANGED <<running, nFail, faulty>>
           \/ /\ e # "ok"
              /\ GetHandles(t, e)
              /\ locked' = aexit(locked, g, e)
              /\ UNCHANGED <<nFail, faulty>>
           \/ \E x \in ReadErrors :        \* the file exists and cannot be read
              /\ nFail < MaxFail
              /\ f.k # "absent"
              /\ nFail' = nFail + 1
              /\ faulty' = [faulty EXCEPT ![g] = TRUE]
              /\ GetHandles(t, x)
              /\ locked' = aexit(locked, g, x)
        /\ UNCHANGED <<ret, cmd, cfg, out, act, locks, now, nCmds>>
        /\ UNCHANGED <<lastSave, nWarn, nRemoved, mixed, conc, race>>

save_config_enter(t) ==
    /\ pc[t] = "save_lock"
    /\ Sched(t)
    /\ LockFree(t)
    /\ locks' = get_guild_lock(locks, cmd[t].g)
    /\ locked' = [locked EXCEPT ![cmd[t].g] = TRUE]
    /\ pc' = [pc EXCEPT ![t] = "save_cs"]
    /\ running' = {t}
    /\ UNCHANGED <<ret, cmd, rv, cfg, out, act, file, now, nCmds, nFail>>
    /\ UNCHANGED hist

\* the history of a write that completed
Written(t, g) ==
    /\ lastSave' = [lastSave EXCEPT ![g] = cfg[t]]
    /\ nWarn' = IF cmd[t].op = "warn"
                THEN [nWarn EXCEPT ![g][cmd[t].u] = @ + 1] ELSE nWarn
    /\ nRemoved' = IF cmd[t].op = "clearwarns"
                   THEN [nRemoved EXCEPT ![g][cmd[t].u] = @ + out[t].n] ELSE nRemoved

\* with open(filepath, 'w') as f: json.dump(data, f, indent=4) / except ...: print
save_config_write(t) ==
    LET g == cmd[t].g
    IN  /\ pc[t] = "save_cs"
        /\ running = {t}
        /\ \/ /\ file' = [file EXCEPT ![filepath(g)] = Json(json_dump(cfg[t][1]))]
              /\ pc' = [pc EXCEPT ![t] = ret[t]]
              /\ locked' = aexit(locked, g, "ok")
              /\ Written(t, g)
              /\ UNCHANGED <<running, nFail, faulty>>
           \/ \E x \in WriteErrors, opened \in BOOLEAN :
              /\ nFail < MaxFail
              /\ nFail' = nFail + 1
              /\ faulty' = [faulty EXCEPT ![g] = TRUE]
              \* makedirs / open fail before the file is touched; once open(.., 'w')
              \* has truncated it, the file holds what was written so far
              /\ (x = "MemoryError") => opened
              /\ file' = [file EXCEPT ![filepath(g)] = IF opened THEN Partial ELSE @]
              /\ locked' = aexit(locked, g, x)
              /\ lastSave' = [lastSave EXCEPT ![g] = <<>>]
              /\ IF SaveCatches(x)
                 THEN /\ pc' = [pc EXCEPT ![t] = ret[t]]
                      /\ UNCHANGED running
                 ELSE Raises(t)
              /\ UNCHANGED <<nWarn, nRemoved>>
        /\ UNCHANGED <<ret, cmd, rv, cfg, out, act, locks, now, nCmds, mixed, conc, race>>

\* the steps of a command change only the task's own registers
Local == UNCHANGED <<cmd, rv, locked, locks, file, nCmds, nFail>>
         /\ UNCHANGED hist

\* warn with an await ctx.send(...) between its append and its save_config
AwaitsBeforeSaveAlsoWarn(c) ==
    c.op = "warn" \/ (c.op = "setchannel" /\ c.ch # None /\ ~c.perm)

\* does the command await the chat service between the return of its
\* get_config and its save_config?  Only _set_channel_helper does: it warns
\* (await ctx.send) when the bot cannot write in the chosen channel
AwaitsBeforeSave(c) == c.op = "setchannel" /\ c.ch # None /\ ~c.perm

\* await save_config(ctx.guild.id, config)
CallSave(t, data, next) ==
    /\ cfg' = [cfg EXCEPT ![t] = <<data>>]
    /\ pc' = [pc EXCEPT ![t] = "save_lock"]
    /\ ret' = [ret EXCEPT ![t] = next]
    /\ running' = IF AwaitsBeforeSave(cmd[t]) THEN {} ELSE {t}

\* log_func(...) -> Logging.log_event: config = await get_config(guild.id);
\* `next` is "log_send" when the command has more to do after the log entry
\* and "log_end" when the log entry is its last step
CallLog(t, next) ==
    /\ pc' = [pc EXCEPT ![t] = "get_lock"]
    /\ ret' = [ret EXCEPT ![t] = next]

\* ------------------------------------------------------------- eligibility
\* lines 90-97 with the bot-owner check before the self check
identity_checks_owner_first(ctx, member) ==
    IF member = ctx.bot_owner THEN "bot_owner"
    ELSE IF member = ctx.author THEN "self"
    ELSE "ok"
\* lines 90-97: 1. cannot moderate self, 2. cannot moderate the bot owner
identity_checks(ctx, member) ==
    IF member = ctx.author THEN "self"
    ELSE IF member = ctx.bot_owner THEN "bot_owner"
    ELSE "ok"
\* lines 84-121 with `<` in the bot hierarchy check: a member whose top role
\* is the bot's own top role passes
check_equal_rank_passes(ctx, member) ==
    IF identity_checks(ctx, member) # "ok" THEN identity_checks(ctx, member)
    ELSE IF ctx.top_role[Bot] < ctx.top_role[member] THEN "bot_hierarchy"
    ELSE IF ctx.author # ctx.owner /\ ctx.top_role[ctx.author] <= ctx.top_role[member]
         THEN "mod_hierarchy"
    ELSE "ok"
\* "ok", or the reason of the first check that fails
check_moderation_permissions(ctx, member) ==
    IF identity_checks(ctx, member) # "ok" THEN identity_checks(ctx, member)
    ELSE IF ctx.top_role[Bot] <= ctx.top_role[member] THEN "bot_hierarchy"
    ELSE IF ctx.author # ctx.owner /\ ctx.top_role[ctx.author] <= ctx.top_role[member]
         THEN "mod_hierarchy"
    ELSE "ok"
\* a command that goes on whatever the check returned
EligibleAlways(verdict) == TRUE
\* `if not await self._check_moderation_permissions(ctx, member): return`
Eligible(verdict) == verdict = "ok"

\* -------------------------------------------------------------------- warn
\* (guild, member, reason) of the warn commands
WarnArgs == {<<"g1", 1, "spam">>, <<"g1", 2, "spam">>, <<"g1", Moderator, "spam">>,
             <<"g1", 1, "">>, <<"g2", 1, "spam">>}

\* lines 444-451: the reason is required, then the target must be eligible
warn_checks(t, c) ==
    LET verdict == check_moderation_permissions(c.ctx, c.u)
    IN  IF c.reason = "" THEN Rejected(t, "no_reason")
        ELSE IF ~Eligible(verdict) THEN Rejected(t, verdict)
        \* await self.bot.is_owner(member) may fetch the application
        ELSE Accepted(t, "warn_add", TRUE)

warn(t) ==
    \E a \in WarnArgs :
        LET c == [NoCmd EXCEPT !.op = "warn", !.g = a[1], !.u = a[2], !.reason = a[3]]
        IN  Dispatch(t, c) /\ warn_checks(t, c)

\* warn for a command that was received with its own ctx
warn_received(t) ==
    /\ pc[t] = "invoke"
    /\ cmd[t].op = "warn"
    /\ running = {t}
    /\ warn_checks(t, cmd[t])
    /\ UNCHANGED <<cfg, act, now>>
    /\ Local
    /\ UNCHANGED hist

\* warn filing the warnings under member.id itself
user_id_int(member) == IntKey(member)
\* the key under which warn files the member's warnings
user_id_str(member) == StrKey(member)

\* warn that replaces the member's list by the new entry
AddWarningOverwrite(ws, key, entry) == Put(ws, key, <<entry>>)
\* config["warnings"][user_id_str].append(warning_entry), the list created if absent
AddWarning(ws, key, entry) == Put(ws, key, Append(Get(ws, key, <<>>), entry))

\* lines 453-477: build the entry, append it, call save_config
warn_add(t) ==
    \* int(time.time()): the second of the last reading or a later one; only
    \* the equality and the order of the ids matter, so seconds are not skipped
    \E clock \in {c \in now..MaxClock : c <= now + 1} :
        LET config == rv[t][1]
            warning_id == clock
            entry == Warning(warning_id, cmd[t].reason)
        IN  /\ pc[t] = "warn_add"
            /\ running = {t}
            /\ now' = clock
            /\ CallSave(t, [config EXCEPT !.warnings =
                               AddWarning(@, user_id_str(cmd[t].u), entry)],
                        "warn_saved")
            /\ UNCHANGED <<out, act>>
            /\ Local

\* an auto-action check that also follows a clearwarns
EvaluatesAutoActionAlsoClear(c) == c.op \in {"warn", "clearwarns"}
\* the auto-action check (lines 504-563) is code of warn only
EvaluatesAutoAction(c) == c.op = "warn"
\* where a command goes when log_func returns
AfterLog(c) == IF EvaluatesAutoAction(c) THEN "log_send" ELSE "log_end"

\* lines 480-493: count, confirmation, then log_func -> log_event
warn_saved(t) ==
    /\ pc[t] = "warn_saved"
    /\ running = {t}
    /\ out' = [out EXCEPT ![t] =
                 Out("warned", Len(cfg[t][1].warnings[user_id_str(cmd[t].u)]))]
    /\ CallLog(t, AfterLog(cmd[t]))
    /\ running' = {}                          \* await ctx.send(...)
    /\ UNCHANGED <<cfg, act, now>>
    /\ Local

\* Logging.log_event after its get_config: the embed goes to the configured
\* channel (await log_channel.send); warn then sends its DM and comes to the
\* auto-action check, the other commands are over
log_event(t) ==
    /\ pc[t] \in {"log_send", "log_end"}
    /\ running = {t}
    /\ IF pc[t] = "log_send"
       THEN /\ pc' = [pc EXCEPT ![t] = "warn_auto"]
            /\ running' = {}
       ELSE /\ pc' = [pc EXCEPT ![t] = "reply"]
            /\ running' = {t}
    /\ UNCHANGED <<ret, cfg, out, act, now>>
    /\ Local

\* ctx.guild.me.guild_permissions: what the guild grants the bot when the
\* auto-action looks; either the three moderation permissions or none of them
BotPermissions == {{"moderate_members", "kick_members", "ban_members"}, {}}

\* str.lower() of the action names used here
lower_name(x) == CASE x = "Ban" -> "ban" [] x = "KICK" -> "kick" [] OTHER -> x

\* lines 505-509: the trigger condition of the auto-action
Triggers(config, warnings_count) ==
    /\ config.warn_threshold > 0
    /\ warnings_count >= config.warn_threshold
    /\ lower_name(config.warn_action) # "none"

\* lines 504-563: the auto-action check of warn.  A request to the platform
\* (member.timeout / kick / ban) is awaited and succeeds or raises; a success
\* is announced in the channel and logged, a failure is logged as an error
warn_auto(t) ==
    \E guild_permissions \in BotPermissions, ok \in BOOLEAN :
    LET config == cfg[t][1]
        action == lower_name(config.warn_action)
        duration == parse_duration(config.warn_timeout_duration)
        Request(a) == /\ act' = [act EXCEPT ![t] =
                                   [req |-> a, n |-> act[t].n + 1,
                                    log |-> IF ok THEN "action" ELSE "error",
                                    said |-> ok]]
                      /\ CallLog(t, "log_end")
                      /\ running' = {}
        Nothing == /\ pc' = [pc EXCEPT ![t] = "reply"]
                   /\ running' = {t}
                   /\ UNCHANGED <<ret, act>>
    IN  /\ pc[t] = "warn_auto"
        /\ Sched(t)
        /\ IF ~Triggers(config, out[t].n) THEN Nothing
           ELSE IF action = "timeout" /\ "moderate_members" \in guild_permissions
                THEN IF duration = Overflow         \* line 519, outside the try
                     THEN Raises(t) /\ UNCHANGED <<ret, act>>
                     ELSE IF duration # NoDuration /\ duration > 0 /\ duration <= MaxTimeout
                     THEN Request("timeout")
                     ELSE /\ act' = [act EXCEPT ![t] = [NoAct EXCEPT !.log = "config_error"]]
                          /\ CallLog(t, "log_end")
                          /\ running' = {t}
           ELSE IF action = "kick" /\ "kick_members" \in guild_permissions
                THEN Request("kick")
           ELSE IF action = "ban" /\ "ban_members" \in guild_permissions
                THEN Request("ban")
           ELSE Nothing
        /\ UNCHANGED <<cfg, out, now>>
        /\ Local

\* the last await of the command completes and the command returns; an
\* exception that left the command is handed to the framework
return(t) ==
    /\ pc[t] \in {"reply", "raised"}
    /\ running = {t}
    /\ Ends(t)
    /\ UNCHANGED <<locked, locks, file, now, nCmds, nFail>>
    /\ UNCHANGED hist

\* -------------------------------------------------------------- clearwarns
\* (guild, member, warning_ref) of the clearwarns commands; a numeric
\* warning_ref is given by the integer it parses to
ClearArgs == {<<"g1", 1, "all", 0>>, <<"g1", 1, "bad", 0>>, <<"g1", 2, "all", 0>>,
              <<"g2", 1, "all", 0>>}
             \cup {<<"g1", 1, "id", i>> : i \in 1..MaxClock}

clearwarns(t) ==
    \E a \in ClearArgs :
        /\ Dispatch(t, [NoCmd EXCEPT !.op = "clearwarns", !.g = a[1], !.u = a[2],
                                     !.ref = a[3], !.id = a[4]])
        /\ Accepted(t, "cw_body", FALSE)

\* clearwarns that stores the filtered list even when it is empty
ClearByIdKeepKey(ws, key, new_warnings) == Put(ws, key, new_warnings)
\* what clearwarns leaves under the member's key when a warning was removed
\* by id: the key goes when the list becomes empty
ClearById(ws, key, new_warnings) ==
    IF new_warnings = <<>> THEN Del(ws, key) ELSE Put(ws, key, new_warnings)

\* clearwarns 'all' that empties the whole ledger
ClearAllEveryone(ws, key) == EmptyMap
\* lines 644-648: del config["warnings"][user_id_str]
ClearAll(ws, key) == Del(ws, key)

\* clearwarns that takes every numeric id as found
FoundAlways(cleared_count) == cleared_count >= 0
\* line 658: if cleared_count > 0 (else: "not found", return)
Found(cleared_count) == cleared_count > 0

\* lines 629-676
cw_body(t) ==
    LET config == rv[t][1]
        key == StrKey(cmd[t].u)
        user_warnings == Get(config.warnings, key, <<>>)
        new_warnings == FilterOut(user_warnings, cmd[t].id)
        cleared_count == Len(user_warnings) - Len(new_warnings)
        Answer(r) == /\ Rejected(t, r)
                     /\ cfg' = [cfg EXCEPT ![t] = <<config>>]
    IN  /\ pc[t] = "cw_body"
        /\ running = {t}
        /\ IF user_warnings = <<>> THEN Answer("no_warnings")
           ELSE IF cmd[t].ref = "all"
                THEN /\ out' = [out EXCEPT ![t] = Out("cleared_all", Len(user_warnings))]
                     /\ CallSave(t, [config EXCEPT !.warnings = ClearAll(@, key)],
                                 "cw_saved")
           ELSE IF cmd[t].ref = "bad" THEN Answer("invalid")
           ELSE IF Found(cleared_count)
                THEN /\ out' = [out EXCEPT ![t] = Out("cleared_id", cleared_count)]
                     /\ CallSave(t, [config EXCEPT !.warnings =
                                        ClearById(@, key, new_warnings)], "cw_saved")
           ELSE Answer("not_found")
        /\ UNCHANGED <<act, now>>
        /\ Local

\* lines 678-692: confirmation, then log_func -> log_event
cw_saved(t) ==
    /\ pc[t] = "cw_saved"
    /\ running = {t}
    /\ CallLog(t, AfterLog(cmd[t]))
    /\ running' = {}
    /\ UNCHANGED <<cfg, out, act, now>>
    /\ Local

\* ------------------------------------------------------ setchannel <type>
\* (guild, channel_type, channel, bot may send and embed in the channel)
ChannelArgs == {<<"g1", "log", "c1", FALSE>>, <<"g1", "log", "c1", TRUE>>,
                <<"g1", "mod_log", None, TRUE>>}

set_channel_helper(t) ==
    \E a \in ChannelArgs :
        /\ Dispatch(t, [NoCmd EXCEPT !.op = "setchannel", !.g = a[1], !.key = a[2],
                                     !.ch = a[3], !.perm = a[4]])
        /\ Accepted(t, "sc_body", FALSE)

\* config[f"{channel_type}_channel"] = channel.id, or None
SetChannel(config, channel_type, channel) ==
    IF channel_type = "log" THEN [config EXCEPT !.log_channel = channel]
    ELSE IF channel_type = "mod_log" THEN [config EXCEPT !.mod_log_channel = channel]
    ELSE IF channel_type = "welcome" THEN [config EXCEPT !.welcome_channel = channel]
    ELSE [config EXCEPT !.leave_channel = channel]

\* logging.py lines 177-193
sc_body(t) ==
    /\ pc[t] = "sc_body"
    /\ running = {t}
    /\ CallSave(t, SetChannel(rv[t][1], cmd[t].key, cmd[t].ch), "sc_saved")
    /\ UNCHANGED <<out, act, now>>
    /\ Local

\* logging.py lines 188 / 194: the confirmation
sc_saved(t) ==
    /\ pc[t] = "sc_saved"
    /\ running = {t}
    /\ out' = [out EXCEPT ![t] = Out("channel_set", 0)]
    /\ pc' = [pc EXCEPT ![t] = "reply"]
    /\ running' = {t}
    /\ UNCHANGED <<ret, cfg, act, now>>
    /\ Local

\* ---------------------------------------------------------------- warnings
\* (guild, member) of the warnings commands
ListArgs == {<<"g1", 1>>}

warnings(t) ==
    \E a \in ListArgs :
        /\ Dispatch(t, [NoCmd EXCEPT !.op = "warnings", !.g = a[1], !.u = a[2]])
        /\ Accepted(t, "w_body", FALSE)

\* a record put in front of the records of its own second
insert_before_equal(s, w) ==
    LET k == Cardinality({i \in 1..Len(s) : s[i].timestamp > w.timestamp})
    IN  SubSeq(s, 1, k) \o <<w>> \o SubSeq(s, k + 1, Len(s))
\* where the next record of the list goes among those already sorted, which
\* are in descending order: behind every record that is not older
insert(s, w) ==
    LET k == Cardinality({i \in 1..Len(s) : s[i].timestamp >= w.timestamp})
    IN  SubSeq(s, 1, k) \o <<w>> \o SubSeq(s, k + 1, Len(s))
\* sorted(user_warnings, key=lambda w: w.get('timestamp', 0), reverse=True):
\* a stable sort, also with reverse=True
RECURSIVE sorted(_)
sorted(ws) ==
    IF ws = <<>> THEN <<>>
    ELSE insert(sorted(SubSeq(ws, 1, Len(ws) - 1)), ws[Len(ws)])
max_warnings_display == 10
\* sorted(...)[:max_warnings_display]
display_warnings(ws) ==
    SubSeq(sorted(ws), 1, IF Len(ws) < max_warnings_display THEN Len(ws)
                          ELSE max_warnings_display)

\* lines 574-615: the listing (or "no recorded warnings") goes to the channel
w_body(t) ==
    LET user_warnings == Get(rv[t][1].warnings, StrKey(cmd[t].u), <<>>)
    IN  /\ pc[t] = "w_body"
        /\ running = {t}
        /\ out' = [out EXCEPT ![t] =
                     IF user_warnings = <<>> THEN Out("no_warnings", 0)
                     ELSE [Out("listed", Len(user_warnings))
                             EXCEPT !.shown = display_warnings(user_warnings)]]
        /\ pc' = [pc EXCEPT ![t] = "reply"]
        /\ running' = {t}
        /\ UNCHANGED <<ret, cfg, act, now>>
        /\ Local

\* -------------------------------------------------------------- warnconfig
warnconfig(t) ==
    /\ Dispatch(t, [NoCmd EXCEPT !.op = "warnconfig"])
    /\ Accepted(t, "wcs_body", FALSE)

\* lines 704-717: show the three settings; the duration is parsed for display.
\* Line 708 passes guild= to discord.Embed, which the installed library
\* either accepts or refuses with a TypeError
warnconfig_show(t) ==
    \E embed_accepts_guild \in BOOLEAN :
    LET config == rv[t][1]
    IN  /\ pc[t] = "wcs_body"
        /\ running = {t}
        /\ IF \/ ~embed_accepts_guild
              \/ /\ config.warn_action = "timeout"
                 /\ parse_duration(config.warn_timeout_duration) = Overflow
           THEN Raises(t) /\ UNCHANGED out
           ELSE /\ out' = [out EXCEPT ![t] = Out("config", config.warn_threshold)]
                /\ pc' = [pc EXCEPT ![t] = "reply"]
                /\ running' = {t}
        /\ UNCHANGED <<ret, cfg, act, now>>
        /\ Local

ThresholdArgs == {-1, 1}
warnconfig_threshold(t) ==
    \E count \in ThresholdArgs :
        /\ Dispatch(t, [NoCmd EXCEPT !.op = "warnconfig_threshold", !.count = count])
        /\ IF count < 0 THEN Rejected(t, "negative")
           ELSE Accepted(t, "wc_body", FALSE)

\* a list of actions that also has "mute"
valid_actions_and_mute == {"none", "timeout", "kick", "ban", "mute"}
valid_actions == {"none", "timeout", "kick", "ban"}
ActionArgs == {"Ban", "mute"}
warnconfig_action(t) ==
    \E action_type \in ActionArgs :
        /\ Dispatch(t, [NoCmd EXCEPT !.op = "warnconfig_action",
                                     !.key = lower_name(action_type)])
        /\ IF lower_name(action_type) \notin valid_actions
           THEN Rejected(t, "invalid_action")
           ELSE Accepted(t, "wc_body", FALSE)

\* the duration strings given to warnconfig duration
DurationArgs == {<<"5", "m", "\n">>, <<"0", "m">>}
warnconfig_duration(t) ==
    \E duration_str \in DurationArgs :
        LET duration == parse_duration(duration_str)
        IN  /\ Dispatch(t, [NoCmd EXCEPT !.op = "warnconfig_duration",
                                         !.dur = duration_str])
            /\ IF duration = Overflow THEN Raises(t) /\ UNCHANGED <<ret, out>>
               ELSE IF duration = NoDuration \/ duration <= 0
                    THEN Rejected(t, "invalid_duration")
               ELSE Accepted(t, "wc_body", FALSE)

\* config["warn_threshold"] = count / config["warn_action"] = action_type_lower
\* / config["warn_timeout_duration"] = duration_str
SetWarnConfig(config, c) ==
    IF c.op = "warnconfig_threshold" THEN [config EXCEPT !.warn_threshold = c.count]
    ELSE IF c.op = "warnconfig_action" THEN [config EXCEPT !.warn_action = c.key]
    ELSE [config EXCEPT !.warn_timeout_duration = c.dur]

\* the subcommand sets its key in the document it read and saves it
wc_body(t) ==
    /\ pc[t] = "wc_body"
    /\ running = {t}
    /\ CallSave(t, SetWarnConfig(rv[t][1], cmd[t]), "wc_saved")
    /\ UNCHANGED <<out, act, now>>
    /\ Local

\* the confirmation
wc_saved(t) ==
    /\ pc[t] = "wc_saved"
    /\ running = {t}
    /\ out' = [out EXCEPT ![t] = Out("set", 0)]
    /\ pc' = [pc EXCEPT ![t] = "reply"]
    /\ running' = {t}
    /\ UNCHANGED <<ret, cfg, act, now>>
    /\ Local

Next ==
    \/ \E t \in Tasks : warn(t)
    \/ \E t \in Tasks : warn_add(t)
    \/ \E t \in Tasks : warn_saved(t)
    \/ \E t \in Tasks : warn_auto(t)
    \/ \E t \in Tasks : clearwarns(t)
    \/ \E t \in Tasks : cw_body(t)
    \/ \E t \in Tasks : cw_saved(t)
    \/ \E t \in Tasks : set_channel_helper(t)
    \/ \E t \in Tasks : sc_body(t)
    \/ \E t \in Tasks : sc_saved(t)
    \/ \E t \in Tasks : log_event(t)
    \/ \E t \in Tasks : return(t)
    \/ \E t \in Tasks : get_config_enter(t)
    \/ \E t \in Tasks : get_config_read(t)
    \/ \E t \in Tasks : save_config_enter(t)
    \/ \E t \in Tasks : save_config_write(t)

Spec == Init /\ [][Next]_vars

\* ------------------------------------------------- the timeout command
\* the characters duration strings are made of: digits, units in both cases,
\* a letter that is no unit, white space, a sign, a non-ASCII decimal digit
Alphabet == {"0", "5", "9", "m", "D", "x", "\n", " ", "-", UnicodeFive}
DurationStrings ==
    UNION {[1..k -> Alphabet] : k \in 0..MaxLen} \cup BoundaryStrings

\* lines 318-340: eligibility, the administrator check, then the duration
timeout(t) ==
    \E administrator \in BOOLEAN :
        LET member == cmd[t].u
            verdict == check_moderation_permissions(cmd[t].ctx, member)
            duration == parse_duration(cmd[t].dur)
        IN  /\ pc[t] = "invoke"
            /\ cmd[t].op = "timeout"
            /\ running = {t}
            /\ IF ~Eligible(verdict) THEN Rejected(t, verdict)
               ELSE IF administrator THEN Rejected(t, "administrator")
               ELSE IF duration = Overflow THEN Raises(t) /\ UNCHANGED <<ret, out>>
               ELSE IF duration = NoDuration \/ duration <= 0
                    THEN Rejected(t, "invalid_duration")
               ELSE IF duration > MaxTimeout THEN Rejected(t, "too_long")
               ELSE /\ out' = [out EXCEPT ![t] = Out("parsed", duration)]
                    /\ pc' = [pc EXCEPT ![t] = "timeout_request"]
                    /\ running' = {}          \* await self._send_dm_notification
                    /\ UNCHANGED ret
            /\ UNCHANGED <<cfg, act, now>>
            /\ Local
            /\ UNCHANGED hist

\* lines 348-378: member.timeout succeeds (confirmation, mod-log entry) or
\* raises (an error message in the channel)
timeout_request(t) ==
    \E ok \in BOOLEAN :
        /\ pc[t] = "timeout_request"
        /\ Sched(t)
        /\ act' = [act EXCEPT ![t] = [req |-> "timeout", n |-> act[t].n + 1,
                                      log |-> IF ok THEN "action" ELSE "none",
                                      said |-> TRUE]]
        /\ IF ok THEN CallLog(t, AfterLog(cmd[t])) /\ running' = {}
           ELSE /\ pc' = [pc EXCEPT ![t] = "reply"]
                /\ running' = {t}
                /\ UNCHANGED ret
        /\ UNCHANGED <<cfg, out, now>>
        /\ Local
        /\ UNCHANGED hist

\* a timeout command with any of the duration strings has been received
InitParse ==
    \E duration_str \in DurationStrings, member \in {1, Moderator} :
        InitWith(DefaultConfig, MaxCmds, MaxFail,
                 [NoCmd EXCEPT !.op = "timeout", !.u = member, !.dur = duration_str])

NextParse ==
    \/ \E t \in Tasks : timeout(t)
    \/ \E t \in Tasks : timeout_request(t)
    \/ \E t \in Tasks : get_config_enter(t)
    \/ \E t \in Tasks : get_config_read(t)
    \/ \E t \in Tasks : log_event(t)
    \/ \E t \in Tasks : return(t)

SpecParse == InitParse /\ [][NextParse]_vars

\* ---------------------------------------------------- the kick command
\* lines 158-163: eligibility, then the DM
kick(t) ==
    LET verdict == check_moderation_permissions(cmd[t].ctx, cmd[t].u)
    IN  /\ pc[t] = "invoke"
        /\ cmd[t].op = "kick"
        /\ running = {t}
        /\ IF ~Eligible(verdict) THEN Rejected(t, verdict)
           ELSE /\ out' = [out EXCEPT ![t] = Out("eligible", 0)]
                /\ pc' = [pc EXCEPT ![t] = "kick_request"]
                /\ running' = {}              \* await self._send_dm_notification
                /\ UNCHANGED ret
        /\ UNCHANGED <<cfg, act, now>>
        /\ Local
        /\ UNCHANGED hist

\* lines 167-192: member.kick succeeds (confirmation, mod-log entry) or raises
\* (an error message in the channel)
kick_request(t) ==
    \E ok \in BOOLEAN :
        /\ pc[t] = "kick_request"
        /\ Sched(t)
        /\ act' = [act EXCEPT ![t] = [req |-> "kick", n |-> act[t].n + 1,
                                      log |-> IF ok THEN "action" ELSE "none",
                                      said |-> TRUE]]
        /\ out' = [out EXCEPT ![t] = Out(IF ok THEN "kicked" ELSE "kick_failed", 0)]
        /\ IF ok THEN CallLog(t, AfterLog(cmd[t])) /\ running' = {}
           ELSE /\ pc' = [pc EXCEPT ![t] = "reply"]
                /\ running' = {t}
                /\ UNCHANGED ret
        /\ UNCHANGED <<cfg, now>>
        /\ Local
        /\ UNCHANGED hist

\* ------------------------------------------------- the untimeout command
\* lines 389-399: a member who is not timed out is left alone, then eligibility
untimeout(t) ==
    \E timed_out \in BOOLEAN :
        LET verdict == check_moderation_permissions(cmd[t].ctx, cmd[t].u)
        IN  /\ pc[t] = "invoke"
            /\ cmd[t].op = "untimeout"
            /\ running = {t}
            /\ IF ~timed_out THEN Rejected(t, "not_timed_out")
               ELSE IF ~Eligible(verdict) THEN Rejected(t, verdict)
               ELSE /\ out' = [out EXCEPT ![t] = Out("eligible", 0)]
                    /\ pc' = [pc EXCEPT ![t] = "untimeout_request"]
                    /\ running' = {}         \* await self.bot.is_owner(member)
                    /\ UNCHANGED ret
            /\ UNCHANGED <<cfg, act, now>>
            /\ Local
            /\ UNCHANGED hist

\* lines 403-432: member.timeout(None) succeeds (confirmation, mod-log entry)
\* or raises (an error message in the channel)
untimeout_request(t) ==
    \E ok \in BOOLEAN :
        /\ pc[t] = "untimeout_request"
        /\ Sched(t)
        /\ act' = [act EXCEPT ![t] = [req |-> "untimeout", n |-> act[t].n + 1,
                                      log |-> IF ok THEN "action" ELSE "none",
                                      said |-> TRUE]]
        /\ out' = [out EXCEPT ![t] = Out(IF ok THEN "untimed" ELSE "untimeout_failed", 0)]
        /\ IF ok THEN CallLog(t, AfterLog(cmd[t])) /\ running' = {}
           ELSE /\ pc' = [pc EXCEPT ![t] = "reply"]
                /\ running' = {t}
                /\ UNCHANGED ret
        /\ UNCHANGED <<cfg, now>>
        /\ Local
        /\ UNCHANGED hist

\* every author, guild owner, bot owner and assignment of top roles
Contexts ==
    [author : Members \cup {Moderator}, owner : Members \cup {Moderator},
     bot_owner : Members \cup {Moderator, BotOwner},
     top_role : [People -> 0..MaxRank]]

\* the commands that go through the moderation check
ModOps == {"kick", "timeout", "untimeout", "warn"}

\* a moderation command of any author against any member has been received
InitElig ==
    \E ctx \in Contexts, member \in People, op \in ModOps :
        InitWith(DefaultConfig, MaxCmds, MaxFail,
                 [NoCmd EXCEPT !.op = op, !.u = member, !.ctx = ctx,
                               !.reason = "spam", !.dur = <<"5", "m">>])

NextElig ==
    \/ \E t \in Tasks : kick(t)
    \/ \E t \in Tasks : kick_request(t)
    \/ \E t \in Tasks : timeout(t)
    \/ \E t \in Tasks : timeout_request(t)
    \/ \E t \in Tasks : untimeout(t)
    \/ \E t \in Tasks : untimeout_request(t)
    \/ \E t \in Tasks : warn_received(t)
    \/ \E t \in Tasks : warn_add(t)
    \/ \E t \in Tasks : warn_saved(t)
    \/ \E t \in Tasks : warn_auto(t)
    \/ \E t \in Tasks : save_config_enter(t)
    \/ \E t \in Tasks : save_config_write(t)
    \/ \E t \in Tasks : get_config_enter(t)
    \/ \E t \in Tasks : get_config_read(t)
    \/ \E t \in Tasks : log_event(t)
    \/ \E t \in Tasks : return(t)

SpecElig == InitElig /\ [][NextElig]_vars

\* ------------------------------------------------ the store of two guilds
\* warn commands on g1, which has a document, and on g2, which has none,
\* with the environment's I/O faults
InitGuilds == Init

NextGuilds ==
    \/ \E t \in Tasks : warn(t)
    \/ \E t \in Tasks : warn_add(t)
    \/ \E t \in Tasks : warn_saved(t)
    \/ \E t \in Tasks : warn_auto(t)
    \/ \E t \in Tasks : log_event(t)
    \/ \E t \in Tasks : return(t)
    \/ \E t \in Tasks : get_config_enter(t)
    \/ \E t \in Tasks : get_config_read(t)
    \/ \E t \in Tasks : save_config_enter(t)
    \/ \E t \in Tasks : save_config_write(t)

SpecGuilds == InitGuilds /\ [][NextGuilds]_vars

\* what the event loop does for task t once its command has arrived: a
\* coroutine that runs goes on to its next await, one that is ready is resumed
Resume(t) ==
    \/ warn_add(t) \/ warn_saved(t) \/ warn_auto(t) \/ log_event(t) \/ return(t)
    \/ get_config_enter(t) \/ get_config_read(t)
    \/ save_config_enter(t) \/ save_config_write(t)
\* the event loop leaves no ready task waiting for ever; commands arrive
\* when their senders want
\* two commands are to come, on guilds as in InitGuilds
InitFair ==
    InitState([DefaultConfig EXCEPT
                 !.warnings = Put(EmptyMap, StrKey(1), InitialLedger)], MaxCmds - 2, 0)
FairGuilds ==
    InitFair /\ [][NextGuilds]_vars /\ \A t \in Tasks : WF_vars(Resume(t))

\* ------------------------------------------------- the warnings listing
\* the seconds in which the warnings on file were made
Seconds == {1, 2}
\* the lists of warnings a member can have on file, the i-th one made by
\* moderator i in any of the seconds
Ledgers ==
    UNION {{[i \in 1..n |-> [Warning(ts[i], "spam") EXCEPT !.moderator_id = i]] :
               ts \in [1..n -> Seconds]} : n \in 0..MaxRecords}

\* member 1 has any of the ledgers on file and one command is to come
InitList ==
    \E ledger \in Ledgers :
        InitState([DefaultConfig EXCEPT
                     !.warnings = IF ledger = <<>> THEN EmptyMap
                                  ELSE Put(EmptyMap, StrKey(1), ledger)],
                  MaxCmds - 1, MaxFail)

NextList ==
    \/ \E t \in Tasks : warnings(t)
    \/ \E t \in Tasks : w_body(t)
    \/ \E t \in Tasks : return(t)
    \/ \E t \in Tasks : get_config_enter(t)
    \/ \E t \in Tasks : get_config_read(t)

SpecList == InitList /\ [][NextList]_vars

\* ------------------------------------------- the warnconfig subcommands
\* warnconfig threshold / action / duration commands on a guild that has the
\* default document, with the environment's I/O faults
InitConfig == InitState(DefaultConfig, 0, 0)

NextConfig ==
    \/ \E t \in Tasks : warnconfig_threshold(t)
    \/ \E t \in Tasks : warnconfig_action(t)
    \/ \E t \in Tasks : warnconfig_duration(t)
    \/ \E t \in Tasks : wc_body(t)
    \/ \E t \in Tasks : wc_saved(t)
    \/ \E t \in Tasks : return(t)
    \/ \E t \in Tasks : get_config_enter(t)
    \/ \E t \in Tasks : get_config_read(t)
    \/ \E t \in Tasks : save_config_enter(t)
    \/ \E t \in Tasks : save_config_write(t)

SpecConfig == InitConfig /\ [][NextConfig]_vars

\* ------------------------------------------------ the auto-action of warn
\* (warn_threshold, warn_action, warn_timeout_duration) a guild has on file:
\* the defaults, settings made by the warnconfig subcommands, and two
\* durations written into the file by hand ("1x", "1000000000d")
StoredSettings ==
    {<<3, "timeout", <<"1", "h">>>>, <<1, "timeout", <<"1", "h">>>>,
     <<2, "kick", <<"1", "h">>>>, <<0, "ban", <<"1", "h">>>>,
     <<2, "none", <<"1", "h">>>>,
     <<2, "timeout", <<"1", "x">>>>,
     <<2, "timeout", <<"1", "0", "0", "0", "0", "0", "0", "0", "0", "0", "d">>>>}

\* the bot starts on a guild with one of the stored settings and one warning
\* of member 1 on file; the environment injects no I/O fault
InitAuto ==
    \E st \in StoredSettings :
        InitState([DefaultConfig EXCEPT
                     !.warn_threshold = st[1], !.warn_action = st[2],
                     !.warn_timeout_duration = st[3],
                     !.warnings = Put(EmptyMap, StrKey(1), InitialLedger)],
                  0, MaxFail)

NextAuto ==
    \/ \E t \in Tasks : warn(t)
    \/ \E t \in Tasks : warn_add(t)
    \/ \E t \in Tasks : warn_saved(t)
    \/ \E t \in Tasks : warn_auto(t)
    \/ \E t \in Tasks : clearwarns(t)
    \/ \E t \in Tasks : cw_body(t)
    \/ \E t \in Tasks : cw_saved(t)
    \/ \E t \in Tasks : warnings(t)
    \/ \E t \in Tasks : w_body(t)
    \/ \E t \in Tasks : warnconfig(t)
    \/ \E t \in Tasks : warnconfig_show(t)
    \/ \E t \in Tasks : warnconfig_threshold(t)
    \/ \E t \in Tasks : warnconfig_action(t)
    \/ \E t \in Tasks : warnconfig_duration(t)
    \/ \E t \in Tasks : wc_body(t)
    \/ \E t \in Tasks : wc_saved(t)
    \/ \E t \in Tasks : log_event(t)
    \/ \E t \in Tasks : return(t)
    \/ \E t \in Tasks : get_config_enter(t)
    \/ \E t \in Tasks : get_config_read(t)
    \/ \E t \in Tasks : save_config_enter(t)
    \/ \E t \in Tasks : save_config_write(t)

SpecAuto == InitAuto /\ [][NextAuto]_vars

TypeOK ==
    /\ running \in {{}} \cup {{t} : t \in Tasks}
    /\ \A t \in Tasks : Len(rv[t]) <= 1 /\ Len(cfg[t]) <= 1
    /\ nCmds \in 0..MaxCmds

\* ------------------------------------------------------------ properties
\* what get_config returns for the guild's file as it stands
Document(g) == IF file[g].k = "json" THEN json_load(file[g].v[1]) ELSE DefaultConfig
\* number of warnings the `warnings` command lists for the member
Listed(g, u) == Len(Get(Document(g).warnings, StrKey(u), <<>>))
NoneRemoved(g) == \A m \in Members : nRemoved[g][m] = 0
AllIdle == \A t \in Tasks : pc[t] = "idle"
\* positions right after the return of a get_config (same run, file untouched)
JustRead == {"warn_add", "cw_body", "sc_body", "log_send", "log_end"}
\* positions of a command between the return of its get_config and the end
\* of its save_config
ReadNotWritten(t) == pc[t] \in {"warn_add", "cw_body", "sc_body", "save_lock", "save_cs"}
InCriticalSection(t, g) == pc[t] \in {"get_cs", "save_cs"} /\ cmd[t].g = g

\* C1: on a guild where only warn commands have written (and no I/O fault
\* occurred), the persisted document holds, for each member, the warnings
\* that were on file at the start plus one for every warn command against
\* the member that has finished its save, however the warn commands were
\* interleaved: two concurrent warns on k warnings leave k+2.
C1_NoLostWarning ==
    \A g \in Guilds, u \in Members :
        (~mixed[g] /\ ~faulty[g] /\ NoneRemoved(g)) => Listed(g, u) = nWarn[g][u]
\* two warns of the member with one warning on file were in progress together
\* and both have finished: three warnings are on file
C1_Witness ==
    \E g \in Guilds, u \in Members :
        /\ race[g] /\ ~mixed[g] /\ ~faulty[g] /\ NoneRemoved(g)
        /\ AllIdle /\ nWarn[g][u] = 3 /\ Listed(g, u) = 3

\* C2: two commands on the same guild are never both between the return of
\* their get_config and the end of their save_config (read-modify-write
\* sequences of one guild do not overlap).
C2_SerializedUpdates ==
    \A t1, t2 \in Tasks :
        (t1 # t2 /\ cmd[t1].g = cmd[t2].g) => ~(ReadNotWritten(t1) /\ ReadNotWritten(t2))

\* C3: at most one get_config or save_config is inside its critical section
\* (file read or file write) for a guild.
C3_MutualExclusion ==
    \A g \in Guilds : Cardinality({t \in Tasks : InCriticalSection(t, g)}) <= 1
\* a task reads or writes the file while another command runs on the guild
C3_Witness ==
    \E g \in Guilds, t1, t2 \in Tasks :
        t1 # t2 /\ InCriticalSection(t1, g) /\ InFlight(t2, g) /\ locked[g]

\* C4: the persisted document of a guild is always absent or complete, also
\* after a save_config whose write failed.
C4_NeverPartial ==
    \A g \in Guilds : file[g].k \in {"absent", "json"}

\* C5: a get_config that follows a completed save_config(g, c), with no other
\* save on g in between, returns a value equal to c.
C5_RoundTrip ==
    [][\A t \in Tasks :
          (pc[t] = "get_cs" /\ pc'[t] = ret[t] /\ lastSave[cmd[t].g] # <<>>)
              => rv'[t] = lastSave[cmd[t].g]]_vars
\* a get_config has returned a saved document that holds warnings
C5_Witness ==
    \E t \in Tasks :
        /\ pc[t] \in JustRead /\ rv[t] # <<>> /\ rv[t] = lastSave[cmd[t].g]
        /\ DOMAIN rv[t][1].warnings # {}

\* the default document as the specification gives it
DocumentedDefault ==
    [log_channel |-> "None", welcome_channel |-> "None", leave_channel |-> "None",
     verified_role |-> "None", mod_log_channel |-> "None",
     welcome_message |-> "Welcome {user.mention} to {server.name}!",
     leave_message |-> "{user.name} has left {server.name}.",
     warnings |-> [k \in {} |-> <<>>],
     warn_threshold |-> 3, warn_action |-> "timeout",
     warn_timeout_duration |-> <<"1", "h">>]

C7_SaveReturns ==
    [][\A t \in Tasks :
          (pc[t] = "save_cs" /\ pc'[t] # "save_cs") => pc'[t] = ret[t]]_vars
\* a command goes on after its save_config left a truncated file
C7_Witness ==
    \E t \in Tasks :
        /\ pc[t] \in {"warn_saved", "cw_saved", "sc_saved"}
        /\ file[cmd[t].g].k = "partial" /\ faulty[cmd[t].g]

\* C8: when warn and clearwarns commands run one after another on a guild
\* (no I/O fault), the warnings listed for a member number the warn commands
\* (those of earlier runs included) minus the records removed by the
\* clearwarns commands.
C8_LedgerCount ==
    \A g \in Guilds, u \in Members :
        (~mixed[g] /\ ~faulty[g] /\ ~conc[g])
            => Listed(g, u) = nWarn[g][u] - nRemoved[g][u]
\* a warn on top of the warning on file, then a clearwarns that removed one
\* record
C8_Witness ==
    \E g \in Guilds, u \in Members :
        /\ ~mixed[g] /\ ~faulty[g] /\ ~conc[g] /\ AllIdle
        /\ nWarn[g][u] = 2 /\ nRemoved[g][u] = 1 /\ Listed(g, u) = 1

\* C9: a clearwarns by id that finds the id removes exactly one record.
C9_ClearByIdRemovesOne ==
    \A t \in Tasks :
        (pc[t] = "cw_saved" /\ cmd[t].ref = "id") => out[t].n = 1

\* C10: no member id of a persisted document maps to an empty list of
\* warnings.
C10_AbsentKey ==
    \A g \in Guilds :
        file[g].k = "json" =>
            \A k \in DOMAIN file[g].v[1].warnings : file[g].v[1].warnings[k] # <<>>
\* a clearwarns by id has just removed the member's last warning
C10_Witness ==
    \E t \in Tasks :
        /\ pc[t] = "cw_saved" /\ cmd[t].ref = "id"
        /\ file[cmd[t].g].k = "json"
        /\ StrKey(cmd[t].u) \notin DOMAIN file[cmd[t].g].v[1].warnings

\* ids of the warnings the command read for its member
ReadIds(t) ==
    LET ws == Get(rv[t][1].warnings, StrKey(cmd[t].u), <<>>)
    IN  {ws[i].id : i \in 1..Len(ws)}

\* C11: clearwarns with a numeric id that none of the member's warnings
\* carries saves nothing (it answers and returns, the file stays as it is)
\* and reports "not found" (or "no warnings to clear" when the member has no
\* warning at all), never "cleared".
C11_NotFoundNoOp ==
    [][\A t \in Tasks :
          (pc[t] = "cw_body" /\ pc'[t] # "cw_body" /\ cmd[t].ref = "id"
           /\ cmd[t].id \notin ReadIds(t))
              => /\ pc'[t] = "reply"
                 /\ file' = file
                 /\ out'[t].n = 0
                 /\ out'[t].res = IF ReadIds(t) = {} THEN "no_warnings"
                                                   ELSE "not_found"]_vars
\* a clearwarns has answered "not found" for a member who has warnings
C11_Witness ==
    \E t \in Tasks :
        /\ pc[t] = "reply" /\ cmd[t].op = "clearwarns" /\ cmd[t].ref = "id"
        /\ out[t].res = "not_found"
        /\ Listed(cmd[t].g, cmd[t].u) >= 1

\* C12: a clearwarns 'all' whose save completes persists the document it
\* read with the member's key deleted and nothing else changed (the other
\* members' warnings, every other field), and reports the length of the
\* member's list, which is at least 1.
C12_ClearAll ==
    [][\A t \in Tasks :
          (pc[t] = "save_cs" /\ pc'[t] = "cw_saved" /\ cmd[t].ref = "all"
           /\ nFail' = nFail)
              => LET before == rv[t][1]
                     key == StrKey(cmd[t].u)
                     g == cmd[t].g
                 IN  /\ file'[g].k = "json"
                     /\ key \in DOMAIN before.warnings
                     /\ DOMAIN file'[g].v[1].warnings = DOMAIN before.warnings \ {key}
                     /\ \A k \in DOMAIN before.warnings \ {key} :
                            file'[g].v[1].warnings[k] = before.warnings[k]
                     /\ [file'[g].v[1] EXCEPT !.warnings = before.warnings] = before
                     /\ out[t].n = Len(before.warnings[key])
                     /\ out[t].n >= 1]_vars
\* a clearwarns 'all' has removed a member's warnings and another member's
\* warnings are still on file
C12_Witness ==
    \E t \in Tasks :
        /\ pc[t] = "cw_saved" /\ cmd[t].ref = "all" /\ out[t].n >= 1
        /\ ~faulty[cmd[t].g] /\ file[cmd[t].g].k = "json"
        /\ StrKey(cmd[t].u) \notin DOMAIN file[cmd[t].g].v[1].warnings
        /\ DOMAIN file[cmd[t].g].v[1].warnings # {}

\* ------------------------------------------------ the auto-action (SpecAuto)
\* the step of task t that is the auto-action check of its warn
AutoStep(t) == pc[t] = "warn_auto" /\ pc'[t] # "warn_auto"
Requested(t) == act'[t].n = act[t].n + 1
ValidDuration(config) ==
    LET duration == parse_duration(config.warn_timeout_duration)
    IN  duration > 0 /\ duration <= MaxTimeout

\* C13 (as stated): the auto-action check of a warn requests an enforcement
\* action exactly when warn_threshold > 0, the resulting count has reached
\* the threshold and warn_action is not none (a timeout whose configured
\* duration does not parse is left to C14)
C13_RequestExactlyWhenTriggered ==
    [][\A t \in Tasks :
          (AutoStep(t) /\ (cfg[t][1].warn_action = "timeout" => ValidDuration(cfg[t][1])))
              => (Requested(t) <=> Triggers(cfg[t][1], out[t].n))]_vars

\* C14 (as stated): when the trigger holds with action timeout and the stored
\* duration does not parse, no timeout is requested and a configuration
\* error goes to the mod-log channel, nothing to the invoking channel
C14_ConfigErrorToModLog ==
    [][\A t \in Tasks :
          (/\ AutoStep(t)
           /\ Triggers(cfg[t][1], out[t].n)
           /\ cfg[t][1].warn_action = "timeout"
           /\ ~ValidDuration(cfg[t][1]))
              => /\ ~Requested(t)
                 /\ act'[t].log = "config_error"
                 /\ ~act'[t].said
                 /\ pc'[t] # "raised"]_vars

\* C15 (as stated): when the trigger holds with action kick or ban, the warn
\* requests that action from the platform, once, and a failed request is
\* reported to the mod-log
C15_KickBanRequestedOnce ==
    [][\A t \in Tasks :
          (/\ AutoStep(t)
           /\ Triggers(cfg[t][1], out[t].n)
           /\ cfg[t][1].warn_action \in {"kick", "ban"})
              => /\ Requested(t)
                 /\ act'[t].n = 1
                 /\ act'[t].req = cfg[t][1].warn_action
                 /\ (~act'[t].said => act'[t].log = "error")]_vars

\* C16: a timeout, kick or ban is requested only by the auto-action check of
\* a warn that has just added a warning; warnings, clearwarns, warnconfig and
\* its subcommands and log_event never request one
C16_OnlyAfterWarningAdded ==
    [][\A t \in Tasks :
          /\ (act'[t] # act[t] /\ act'[t] # NoAct)
                => /\ pc[t] = "warn_auto"
                   /\ cmd[t].op = "warn"
                   /\ out[t].res = "warned"
          /\ (cmd'[t].op # "warn" => act'[t] = NoAct)]_vars
\* a warnconfig subcommand has put the threshold at or under the stored count
\* of member 1 with an action configured, and nothing was requested
C16_Witness ==
    \E t \in Tasks :
        /\ pc[t] = "reply"
        /\ cmd[t].op \in {"warnconfig_threshold", "warnconfig_action"}
        /\ out[t].res = "set"
        /\ file[cmd[t].g].k = "json"
        /\ Triggers(file[cmd[t].g].v[1], Listed(cmd[t].g, 1))
        /\ act[t] = NoAct

\* ------------------------------------------- parse_duration (SpecParse)
\* the timeout command of task t has evaluated parse_duration(duration_str)
Parsed(t) ==
    /\ cmd[t].op = "timeout"
    /\ pc[t] = "raised" \/ out[t].res \in {"parsed", "invalid_duration", "too_long"}

\* C17 (as stated): a string is accepted only if it is one or more ASCII
\* digits followed by exactly one of s, m, h, d in either case, with nothing
\* before or after
C17_StrictGrammarOnly ==
    \A t \in Tasks :
        (cmd[t].op = "timeout" /\ out[t].res = "parsed")
            => LET s == cmd[t].dur
               IN  /\ Len(s) >= 2
                   /\ \A i \in 1..(Len(s) - 1) : \E d \in 1..10 : Digits[d] = s[i]
                   /\ s[Len(s)] \in {"s", "m", "h", "d", "S", "M", "H", "D"}

\* C18 (as stated): for a well-formed string of magnitude n and unit u the
\* result is exactly n * seconds(u) when n >= 1 and n * seconds(u) <= 2419200,
\* and invalid otherwise
C18_ProductOrInvalid ==
    \A t \in Tasks :
        LET s == cmd[t].dur
            ds == SubSeq(s, 1, Len(s) - 1)
            seconds == UnitSeconds(lower(s[Len(s)]))
            well_formed ==
                /\ Len(s) >= 2
                /\ \A i \in 1..(Len(s) - 1) : \E d \in 1..10 : Digits[d] = s[i]
                /\ s[Len(s)] \in {"s", "m", "h", "d", "S", "M", "H", "D"}
            \* n >= 1 and n * seconds <= 2419200, without computing a product
            \* that is out of range
            in_range ==
                /\ Significant(ds) # <<>>
                /\ Len(Significant(ds)) <= 7
                /\ int(ds) <= MaxTimeout \div seconds
        IN  (Parsed(t) /\ well_formed)
                => IF in_range THEN out[t] = Out("parsed", int(ds) * seconds)
                   ELSE out[t].res = "invalid_duration"

\* C19 (as stated): parse_duration returns, a duration or invalid, for every
\* string; it never raises
C19_NeverRaises ==
    \A t \in Tasks : cmd[t].op = "timeout" => pc[t] # "raised"

\* ---------------------------------------------- eligibility (SpecElig)
\* C20: the moderation check accepts exactly when the target is not the
\* author, is not the bot owner, has a top role under the bot's, and either
\* the author owns the guild or the target's top role is under the author's
C20_EligibilityExact ==
    \A t \in Tasks :
        (cmd[t].op = "kick" /\ pc[t] # "invoke")
            => LET ctx == cmd[t].ctx
                   member == cmd[t].u
               IN  (out[t].res \in {"eligible", "kicked", "kick_failed"})
                      <=> /\ member # ctx.author
                          /\ member # ctx.bot_owner
                          /\ ctx.top_role[Bot] > ctx.top_role[member]
                          /\ \/ ctx.author = ctx.owner
                             \/ ctx.top_role[ctx.author] > ctx.top_role[member]
\* the guild's owner has kicked a member whose top role is not under their own
C20_Witness ==
    \E t \in Tasks :
        /\ cmd[t].op = "kick"
        /\ out[t].res = "kicked"
        /\ cmd[t].ctx.author = cmd[t].ctx.owner
        /\ cmd[t].ctx.top_role[cmd[t].ctx.author] <= cmd[t].ctx.top_role[cmd[t].u]

\* the moderation command of task t has called the eligibility check
Checked(t) ==
    /\ cmd[t].op \in ModOps
    /\ pc[t] # "invoke"
    /\ out[t].res \notin {"no_reason", "not_timed_out"}

\* C21: a rejection carries the reason of the first check that fails, in the
\* order self, bot owner, bot rank, actor rank, and nothing else is sent; a
\* target that is the author gets the 'self' reason whoever the author is
C21_FirstFailingReason ==
    \A t \in Tasks :
        Checked(t)
            => LET ctx == cmd[t].ctx
                   member == cmd[t].u
                   self == member = ctx.author
                   owner == member = ctx.bot_owner
                   bot_rank == ctx.top_role[Bot] <= ctx.top_role[member]
                   actor_rank == /\ ctx.author # ctx.owner
                                 /\ ctx.top_role[ctx.author] <= ctx.top_role[member]
               IN  /\ self => out[t].res = "self"
                   /\ (~self /\ owner) => out[t].res = "bot_owner"
                   /\ (~self /\ ~owner /\ bot_rank) => out[t].res = "bot_hierarchy"
                   /\ (~self /\ ~owner /\ ~bot_rank /\ actor_rank)
                         => out[t].res = "mod_hierarchy"
                   /\ (self \/ owner \/ bot_rank \/ actor_rank)
                         => pc[t] = "reply" /\ out[t].n = 0 /\ ~act[t].said
\* the author, who owns the guild and the bot and outranks nobody, targeted
\* themselves and was told 'self'
C21_Witness ==
    \E t \in Tasks :
        /\ Checked(t)
        /\ out[t].res = "self"
        /\ cmd[t].u = cmd[t].ctx.author
        /\ cmd[t].ctx.author = cmd[t].ctx.owner
        /\ cmd[t].ctx.author = cmd[t].ctx.bot_owner
        /\ cmd[t].ctx.top_role[Bot] <= cmd[t].ctx.top_role[cmd[t].u]

\* C28: when the check rejects the target, kick, timeout, untimeout and warn
\* do nothing to it: no request to the platform, no warning recorded (the
\* file is as it was), no auto-action check
C28_RejectedNoAction ==
    \A t \in Tasks :
        (Checked(t) /\ check_moderation_permissions(cmd[t].ctx, cmd[t].u) # "ok")
            => /\ act[t] = NoAct
               /\ pc[t] = "reply"
               /\ file["g1"] = Json(DefaultConfig)
               /\ \A g \in Guilds : lastSave[g] = <<>>
\* a warn whose target outranks the author was rejected and recorded nothing
C28_Witness ==
    \E t \in Tasks :
        /\ Checked(t)
        /\ cmd[t].op = "warn"
        /\ out[t].res = "mod_hierarchy"
        /\ file["g1"] = Json(DefaultConfig)
        /\ act[t] = NoAct

\* ------------------------------------------ warnconfig (SpecConfig)
\* C22: after any warnconfig threshold / action / duration commands on the
\* default document, every document on file has warn_threshold >= 0, a
\* warn_action among none, timeout, kick, ban and a warn_timeout_duration
\* that parse_duration accepts; a command with an invalid argument ends in
\* its rejection, before get_config and save_config
C22_StoredSettingsValid ==
    /\ \A g \in Guilds :
          file[g].k = "json"
              => LET document == file[g].v[1]
                 IN  /\ document.warn_threshold >= 0
                     /\ document.warn_action \in {"none", "timeout", "kick", "ban"}
                     /\ parse_duration(document.warn_timeout_duration) > 0
    /\ \A t \in Tasks :
          out[t].res \in {"negative", "invalid_action", "invalid_duration"}
              => pc[t] = "reply" /\ rv[t] = <<>> /\ cfg[t] = <<>>
\* two subcommands have changed the document on file, each to a valid value
C22_Witness ==
    /\ file["g1"].k = "json"
    /\ file["g1"].v[1].warn_action = "ban"
    /\ file["g1"].v[1].warn_threshold = 1
    /\ file["g1"].v[1] # DefaultConfig

C24_NoCrossGuildWrite ==
    [][\A g \in Guilds :
          file'[g] # file[g] => \E t \in Tasks : running = {t} /\ cmd[t].g = g]_vars
\* a command of g2 has saved its document and g1's file is as it was
C24_Witness ==
    /\ lastSave["g2"] # <<>>
    /\ file["g2"].k = "json"
    /\ file["g1"] = Json([DefaultConfig EXCEPT
                            !.warnings = Put(EmptyMap, StrKey(1), InitialLedger)])

\* C26: an entry of the lock table is never replaced or removed: every call
\* of get_guild_lock after the first returns the guild's first Lock
C26_OneLockPerGuild ==
    [][\A g \in DOMAIN locks : g \in DOMAIN locks' /\ locks'[g] = locks[g]]_vars
\* two commands of g2, a guild without an entry at the start, have both gone
\* through get_guild_lock and the guild has its first Lock
C26_Witness ==
    \E t, o \in Tasks :
        /\ t # o
        /\ cmd[t].g = "g2" /\ cmd[o].g = "g2"
        /\ rv[t] # <<>> /\ rv[o] # <<>>
        /\ "g2" \in DOMAIN locks
        /\ locks["g2"] = 1

\* C29: get_config leaves every file as it is, also the file that does not
\* exist; a file changes only in the write of a save_config of its guild, and
\* a file that exists never ceases to exist
C29_GetConfigReadsOnly ==
    [][/\ \A t \in Tasks : (pc[t] = "get_cs" /\ pc'[t] # "get_cs") => file' = file
       /\ \A g \in Guilds :
             file'[g] # file[g]
                 => /\ \E t \in Tasks :
                          pc[t] = "save_cs" /\ pc'[t] # "save_cs" /\ cmd[t].g = g
                    /\ file'[g].k # "absent"]_vars
\* a warn of g2 was given the defaults and g2 still has no file
C29_Witness ==
    \E t \in Tasks :
        /\ cmd[t].g = "g2"
        /\ pc[t] = "warn_add"
        /\ rv[t] = <<DefaultConfig>>
        /\ file["g2"] = Absent

\* ------------------------------------------ the listing (SpecList)
\* C25: the records listed are the first 10 of the member's records ordered
\* by timestamp, newest first, records of the same second in the order in
\* which they were added
C25_NewestFirstStable ==
    \A t \in Tasks :
        out[t].res = "listed"
            => LET ws == Get(file[cmd[t].g].v[1].warnings, StrKey(cmd[t].u), <<>>)
                   shown == out[t].shown
                   \* a is listed before b: a is newer, or as old and added first
                   Before(a, b) ==
                       \/ a.timestamp > b.timestamp
                       \/ a.timestamp = b.timestamp /\ a.moderator_id < b.moderator_id
                   Shown(w) == \E i \in 1..Len(shown) : shown[i] = w
               IN  /\ Len(shown) = IF Len(ws) < 10 THEN Len(ws) ELSE 10
                   /\ \A i \in 1..Len(shown) : \E j \in 1..Len(ws) : shown[i] = ws[j]
                   /\ \A i, j \in 1..Len(shown) : i < j => Before(shown[i], shown[j])
                   /\ \A j \in 1..Len(ws) :
                         ~Shown(ws[j]) => \A i \in 1..Len(shown) : Before(shown[i], ws[j])
\* eleven records, the first of them older than the last, some of the same
\* second: ten are listed
C25_Witness ==
    \E t \in Tasks :
        LET ws == Get(file[cmd[t].g].v[1].warnings, StrKey(cmd[t].u), <<>>)
        IN  /\ out[t].res = "listed"
            /\ Len(ws) = 11
            /\ ws[1].timestamp = 1 /\ ws[2].timestamp = 1 /\ ws[11].timestamp = 2
            /\ Len(out[t].shown) = 10
            /\ out[t].shown[1] = ws[11]

\* ------------------------------------- what the auto-action check counts
\* C27 (as stated): the auto-action check of a warn writes nothing, and the
\* count it compares with the threshold and reports is the number of
\* warnings of the member that are on file at that moment, also after a save
\* that failed and with another command on the guild in progress
C27_CountIsPersistedCount ==
    [][\A t \in Tasks :
          AutoStep(t) => /\ file' = file
                         /\ out[t].n = Listed(cmd[t].g, cmd[t].u)]_vars

\* ------------------------------------------------- progress (FairGuilds)
InConfigCall(t) == pc[t] \in {"get_lock", "get_cs", "save_lock", "save_cs"}
\* C30: every get_config and save_config that has started returns (or
\* raises) under fair scheduling; a guild's lock is held only by a task that
\* is reading or writing the guild's file, so it is released however the
\* call ends and no task waits for a lock while it holds one
C30_ConfigCallsReturn ==
    /\ [](\A g \in Guilds : locked[g] <=> \E t \in Tasks : InCriticalSection(t, g))
    /\ \A t \in Tasks : InConfigCall(t) ~> ~InConfigCall(t)
\* a save of g2 failed and left no file, its lock is free, and a second
\* command on g2 has got the defaults from its get_config meanwhile
C30_Witness ==
    \E t1, t2 \in Tasks :
        /\ t1 # t2 /\ InFlight(t1, "g2") /\ cmd[t2].g = "g2"
        /\ faulty["g2"] /\ file["g2"].k = "absent" /\ ~locked["g2"]
        /\ pc[t2] = "warn_add" /\ rv[t2] = <<DefaultConfig>>
====
